---- MODULE Spec2Model ----
(***************************************************************************)
(* The context scope resolver and storage-backend dispatcher of            *)
(* red/runtime/nodes/context/index.js.                                     *)
(*                                                                         *)
(* Scope identifiers are JavaScript strings.  A string is represented by   *)
(* the list of its ':'-separated components (what id.split(":") yields),   *)
(* so "n1:f1" is <<"n1","f1">>, localId+":"+flowId is localId \o flowId    *)
(* and idParts[0] is Head(id).  The empty list stands for an omitted       *)
(* (undefined) argument.                                                   *)
(*                                                                         *)
(* Objects have identity: a scope object is an index into heap, a backend  *)
(* instance carries the number it was allocated under.  Backend calls made *)
(* by the last handler are recorded, in order, in calls.                   *)
(***************************************************************************)
EXTENDS Integers, Sequences, FiniteSets, TLC

\* ---------------------------------------------------------------- bounds
MaxObj == 3        \* scope objects ever allocated
MaxPlugins == 3    \* entries of settings.contextStorage

\* ---------------------------------------------------------------- values
Undefined == "undefined"
Null == 0
NoInst == [id |-> 0, module |-> "undefined"]
NoId == <<>>

Truthy(x) == x # Undefined
IsFunction(x) == x = "function"

\* ------------------------------------------------- input domains (bounded)
PluginNames == {"_", "default", "s1"}
AliasTargets == {"_", "default", "s1", "zz"}
\* what a contextStorage entry is: a string value, an object without a
\* module field, a module that cannot be required, a module whose factory
\* throws, a module whose factory returns an instance
EntryKinds == {"string", "nomodule", "missing", "throws", "ok"}

E(n, k, t) == [name |-> n, kind |-> k, target |-> t]

\* "default" as a string naming any target or as any object; "s1" as any
\* object or as a string; "_" as a well-formed and as a malformed object
Entries ==
    {E("default", "string", t) : t \in AliasTargets}
    \cup {E(n, k, Undefined) : n \in {"default", "s1"}, k \in EntryKinds \ {"string"}}
    \cup {E("s1", "string", "zz"), E("_", "ok", Undefined), E("_", "nomodule", Undefined)}

DistinctNames(ps) == \A i, j \in 1..Len(ps) : i # j => ps[i].name # ps[j].name

RECURSIVE SeqsUpTo(_, _)
SeqsUpTo(S, n) ==
    IF n = 0 THEN {<<>>}
    ELSE LET shorter == SeqsUpTo(S, n - 1)
         IN shorter \cup {Append(s, e) : s \in {t \in shorter : Len(t) = n - 1}, e \in S}

\* settings.contextStorage: <<>> when absent, <<plugins>> when present
\* (plugins is the ordered list of the object's own entries)
AllStorages ==
    {<<>>} \cup {<<ps>> : ps \in {q \in SeqsUpTo(Entries, MaxPlugins) : DistinctNames(q)}}

FewStorages ==
    { <<>>,
      << <<E("s1", "ok", Undefined)>> >>,
      << <<E("default", "string", "default")>> >> }

\* (localId, flowId) of the global scope, a node, a flow, a node in a flow
NodeArgs == << <<"n1">>, <<"f1">> >>
ScopeArgs == { << <<"global">>, NoId >>, << <<"n1">>, NoId >>, << <<"f1">>, NoId >>, NodeArgs }
NodeNames == {"n1", "f1"}
SeedArgs == {"absent", "new", "same"}
StorageArgs == {Undefined, "function", "_", "default", "s1", "nosuch"}
CallbackArgs == {Undefined, "function", "object"}

\* ------------------------------------------------------------------ state
VARIABLES
    settings,            \* [defined, functionGlobalContext, contextStorage]
    contexts,            \* scope id -> scope object
    globalContext,       \* scope object, or Null
    externalContexts,    \* ordered list of [name, inst]
    hasExternalContext,
    heap,                \* scope objects: [scope, flow, global]
    lastOp,              \* the last call made: its name, its storage and callback
    ret,                 \* what it returned or raised; for load, the state of
                         \* its promise and of the promises of the open() calls
    calls                \* the backend calls it made, in order

vars == <<settings, contexts, globalContext, externalContexts, hasExternalContext,
          heap, lastOp, ret, calls>>

\* ----------------------------------------------- the registry as an object
Has(ext, n) == \E i \in 1..Len(ext) : ext[i].name = n

Lookup(ext, n) ==
    IF Has(ext, n) THEN ext[CHOOSE i \in 1..Len(ext) : ext[i].name = n].inst ELSE NoInst

Put(ext, n, v) ==
    IF Has(ext, n)
    THEN [i \in 1..Len(ext) |-> IF ext[i].name = n THEN [name |-> n, inst |-> v] ELSE ext[i]]
    ELSE Append(ext, [name |-> n, inst |-> v])

\* a call made on a backend (or the construction of one): the operation, the
\* instance it is made on, and its scope-id and callback / name arguments
Call(op, inst, scope, arg) == [op |-> op, inst |-> inst.id, scope |-> scope, arg |-> arg]

\* A new object is distinct from every object still referenced: it gets the
\* least number no registry entry holds.
FreshId(ext) ==
    CHOOSE n \in 1..(Len(ext) + 1) :
        /\ \A i \in 1..Len(ext) : ext[i].inst.id # n
        /\ \A m \in 1..(n - 1) : \E i \in 1..Len(ext) : ext[i].inst.id = m

Op(op, storage, callback) == [op |-> op, storage |-> storage, callback |-> callback]

Ret(status, ref) == [status |-> status, ref |-> ref]

\* ------------------------------------------------------------ createContext
createContext(id) == [scope |-> id, flow |-> Null, global |-> Null]

\* contextId of getContext and deleteContext
ContextId(localId, flowId) == IF flowId # NoId THEN localId \o flowId ELSE localId

\* ---------------------------------------------------------------- getContext
\* getContext without line 199: the cache is never consulted
getContextNoCache(ctxs, hp, gc, localId, flowId) ==
    LET contextId == ContextId(localId, flowId)
        hp1 == Append(hp, createContext(contextId))
        ref == Len(hp1)
        hp2 == IF flowId # NoId /\ flowId \notin DOMAIN ctxs
               THEN Append(hp1, [createContext(flowId) EXCEPT !.global = gc])
               ELSE hp1
        fl == IF flowId = NoId THEN Null
              ELSE IF flowId \in DOMAIN ctxs THEN ctxs[flowId] ELSE Len(hp2)
        ctxs2 == IF flowId # NoId THEN (flowId :> fl) @@ ctxs ELSE ctxs
    IN [contexts |-> (contextId :> ref) @@ ctxs2,
        heap |-> [hp2 EXCEPT ![ref].flow = fl, ![ref].global = gc],
        ret |-> ref]

RECURSIVE getContext(_, _, _, _, _)
getContext(ctxs, hp, gc, localId, flowId) ==
    LET contextId == ContextId(localId, flowId) IN
    IF contextId \in DOMAIN ctxs
    THEN [contexts |-> ctxs, heap |-> hp, ret |-> ctxs[contextId]]
    ELSE LET hp1 == Append(hp, createContext(contextId))
             ref == Len(hp1)
             fl == IF flowId # NoId
                   THEN getContext(ctxs, hp1, gc, flowId, NoId)
                   ELSE [contexts |-> ctxs, heap |-> hp1, ret |-> Null]
             hp2 == [fl.heap EXCEPT ![ref].flow = fl.ret, ![ref].global = gc]
         IN [contexts |-> (contextId :> ref) @@ fl.contexts, heap |-> hp2, ret |-> ref]

\* ---------------------------------------------------------- getContextStorage
\* [err, inst]: the registry entry the name resolves to, or the error raised
getContextStorage(ext, storage) ==
    IF Has(ext, storage) THEN [err |-> "none", inst |-> Lookup(ext, storage)]
    ELSE IF Has(ext, "default") THEN [err |-> "none", inst |-> Lookup(ext, "default")]
    ELSE [err |-> "ContextError", inst |-> NoInst]

\* ------------------------------------------------------------------- load
Declared(plugins, n) == \E i \in 1..Len(plugins) : plugins[i].name = n

Fail(st, e) == [st EXCEPT !.err = e]

\* Construct that opens each instance as soon as it is built
ConstructAndOpen(st, e) ==
    IF e.kind \in {"string", "nomodule"} THEN Fail(st, "error-module-not-defined")
    ELSE IF e.kind = "missing" THEN Fail(st, "error-module-not-loaded")
    ELSE IF e.kind = "throws" THEN Fail(st, "error-loading-module")
    ELSE LET inst == [id |-> FreshId(st.ext), module |-> "plugin"]
         IN [st EXCEPT !.ext = Put(st.ext, e.name, inst),
                       !.log = st.log \o <<Call("construct", inst, NoId, e.name),
                                            Call("open", inst, NoId, Undefined)>>]

\* lines 62-89: one concrete entry, from its module field to the instance
Construct(st, e) ==
    IF e.kind \in {"string", "nomodule"} THEN Fail(st, "error-module-not-defined")
    ELSE IF e.kind = "missing" THEN Fail(st, "error-module-not-loaded")
    ELSE IF e.kind = "throws" THEN Fail(st, "error-loading-module")
    ELSE LET inst == [id |-> FreshId(st.ext), module |-> "plugin"]
         IN [st EXCEPT !.ext = Put(st.ext, e.name, inst),
                       !.log = Append(st.log, Call("construct", inst, NoId, e.name))]

\* LoadEntry without lines 49-51: "_" is configured like any other name
LoadEntryNoReserved(st, plugins, e) ==
    IF e.name = "default" /\ e.kind = "string"
    THEN IF ~Declared(plugins, e.target)
         THEN Fail(st, "error-invalid-default-module")
         ELSE [st EXCEPT !.defaultIsAlias = TRUE]
    ELSE Construct(st, e)

\* lines 47-90: the body of the loop over the configured entries
LoadEntry(st, plugins, e) ==
    IF e.name = "_" THEN st
    ELSE IF e.name = "default" /\ e.kind = "string"
    THEN IF ~Declared(plugins, e.target)
         THEN Fail(st, "error-invalid-default-module")
         ELSE [st EXCEPT !.defaultIsAlias = TRUE]
    ELSE Construct(st, e)

RECURSIVE LoadLoop(_, _, _)
LoadLoop(st, plugins, i) ==
    IF i > Len(plugins) \/ st.err # "none" THEN st
    ELSE LoadLoop(LoadEntry(st, plugins, plugins[i]), plugins, i + 1)

\* one open(): a TypeError when the registry entry holds no instance
OpenOne(st, inst) ==
    IF inst = NoInst THEN Fail(st, "TypeError")
    ELSE [st EXCEPT !.log = Append(st.log, Call("open", inst, NoId, Undefined)),
                    !.promises = st.promises + 1]

\* lines 94-98: open everything the registry holds, in key order
RECURSIVE OpenAll(_, _)
OpenAll(st, i) ==
    IF i > Len(st.ext) \/ st.err # "none" THEN st
    ELSE OpenAll(OpenOne(st, st.ext[i].inst), i + 1)

AliasTarget(plugins) ==
    plugins[CHOOSE i \in 1..Len(plugins) : plugins[i].name = "default"].target

\* lines 102-104
BindAlias(st, plugins) ==
    IF st.err = "none" /\ st.defaultIsAlias
    THEN [st EXCEPT !.ext = Put(st.ext, "default", Lookup(st.ext, AliasTarget(plugins)))]
    ELSE st

\* lines 45-105: if (plugins) { ... }
LoadPlugins(st, storage) ==
    IF storage = <<>> THEN st
    ELSE BindAlias(OpenAll(LoadLoop(st, storage[1], 1), 1), storage[1])

\* lines 107-111: st.external is hasExternalContext
LoadFinish(st) ==
    IF st.err # "none" THEN st
    ELSE IF st.promises = 0
    THEN OpenOne(st, Lookup(st.ext, "_"))
    ELSE [st EXCEPT !.external = TRUE]

\* Promise.all that is fulfilled by the first fulfilment
PromiseAny(status, promises) ==
    IF status # "opening" THEN status
    ELSE IF \E i \in DOMAIN promises : promises[i] = "fulfilled" THEN "resolved"
    ELSE IF \E i \in DOMAIN promises : promises[i] = "rejected" THEN "rejected"
    ELSE "opening"

\* line 112, resolve(Promise.all(promises)): the promise load returned stays
\* as it is once settled; while pending it is rejected by the first rejection
\* and fulfilled when every promise of the array is
PromiseAll(status, promises) ==
    IF status # "opening" THEN status
    ELSE IF \E i \in DOMAIN promises : promises[i] = "rejected" THEN "rejected"
    ELSE IF \A i \in DOMAIN promises : promises[i] = "fulfilled" THEN "resolved"
    ELSE "opening"

\* lines 39-114, up to the call of Promise.all
LoadResult(ext, hasExt, stg) ==
    IF ~stg.defined
    THEN [ext |-> ext, log |-> <<>>, err |-> "TypeError",
          defaultIsAlias |-> FALSE, promises |-> 0, external |-> hasExt]
    ELSE LoadFinish(LoadPlugins(
             [ext |-> ext, log |-> <<>>, err |-> "none",
              defaultIsAlias |-> FALSE, promises |-> 0, external |-> hasExt],
             stg.contextStorage))

\* ------------------------------------------------------ clean and close
\* lines 228-232 and 246-250: one call per registry key, in key order; the
\* call on an entry that holds no instance raises a TypeError
RECURSIVE ForEachBackend(_, _, _, _)
ForEachBackend(ext, op, i, log) ==
    IF i > Len(ext) THEN [err |-> "none", log |-> log]
    ELSE IF ext[i].inst = NoInst THEN [err |-> "TypeError", log |-> log]
    ELSE ForEachBackend(ext, op, i + 1, Append(log, Call(op, ext[i].inst, NoId, Undefined)))

\* lines 233-240
Sweep(ctxs, live) ==
    LET keep == {id \in DOMAIN ctxs : id = <<"global">> \/ Head(id) \in live}
    IN [id \in keep |-> ctxs[id]]

\* ------------------------------------------------------------ initial state
TypeOK ==
    /\ settings.defined \in BOOLEAN
    /\ hasExternalContext \in BOOLEAN
    /\ globalContext \in 0..Len(heap)
    /\ Len(heap) <= MaxObj
    /\ \A id \in DOMAIN contexts : contexts[id] \in 1..Len(heap)

\* the module's top-level declarations, lines 21-25
Init ==
    /\ settings = [defined |-> FALSE, functionGlobalContext |-> Null, contextStorage |-> <<>>]
    /\ contexts = <<>>
    /\ globalContext = Null
    /\ externalContexts = <<>>
    /\ hasExternalContext = FALSE
    /\ heap = <<>>
    /\ lastOp = Op("require", Undefined, Undefined)
    /\ ret = Ret("ok", Null)
    /\ calls = <<>>

\* ----------------------------------------------------------------- actions
\* init(_settings), lines 27-37.  _settings.functionGlobalContext is absent
\* (seed = {} is a new object), a new object, or the object the previous
\* init was given; createContext("global", seed) returns the seed itself.
InitResult(stg, ctxs, ext, hp, storage, seed) ==
    LET hp1 == IF seed = "same" THEN hp ELSE Append(hp, createContext(<<"global">>))
        ref == IF seed = "same" THEN stg.functionGlobalContext ELSE Len(hp1)
        mem == [id |-> FreshId(ext), module |-> "memory"]
    IN [settings |-> [defined |-> TRUE,
                      functionGlobalContext |-> IF seed = "absent" THEN Null ELSE ref,
                      contextStorage |-> storage],
        externalContexts |-> <<[name |-> "_", inst |-> mem]>>,
        heap |-> hp1,
        globalContext |-> ref,
        contexts |-> (<<"global">> :> ref) @@ ctxs,
        calls |-> <<Call("setGlobalContext", mem, NoId, Undefined)>>]

init(storage, seed) ==
    /\ seed = "same" => settings.functionGlobalContext # Null
    /\ seed # "same" => Len(heap) < MaxObj
    /\ LET r == InitResult(settings, contexts, externalContexts, heap, storage, seed)
       IN /\ settings' = r.settings
          /\ externalContexts' = r.externalContexts
          /\ heap' = r.heap
          /\ globalContext' = r.globalContext
          /\ contexts' = r.contexts
          /\ calls' = r.calls
    /\ lastOp' = Op("init", Undefined, Undefined)
    /\ ret' = Ret("ok", Null)
    /\ UNCHANGED hasExternalContext

\* load(), lines 39-114
load ==
    /\ LET r == LoadResult(externalContexts, hasExternalContext, settings)
       IN /\ externalContexts' = r.ext
          /\ hasExternalContext' = r.external
          /\ calls' = r.log
          /\ LET promises == [i \in 1..r.promises |-> "pending"]
             IN ret' = Ret(PromiseAll(IF r.err = "none" THEN "opening" ELSE r.err,
                                      promises), promises)
    /\ lastOp' = Op("load", Undefined, Undefined)
    /\ UNCHANGED <<settings, contexts, globalContext, heap>>

\* the promise of the i-th open() of the last load is fulfilled or rejected
\* by its backend (lines 96, 108); Promise.all reacts (line 112)
open_settles(i, outcome) ==
    /\ lastOp.op = "load"
    /\ i \in DOMAIN ret.ref
    /\ ret.ref[i] = "pending"
    /\ LET promises == [ret.ref EXCEPT ![i] = outcome]
       IN ret' = Ret(PromiseAll(ret.status, promises), promises)
    /\ UNCHANGED <<settings, contexts, globalContext, externalContexts,
                   hasExternalContext, heap, lastOp, calls>>

\* exports.get(localId, flowId), lines 194-211
get(localId, flowId) ==
    /\ LET r == getContext(contexts, heap, globalContext, localId, flowId)
       IN /\ Len(r.heap) <= MaxObj
          /\ contexts' = r.contexts
          /\ heap' = r.heap
          /\ ret' = Ret("ok", r.ret)
    /\ lastOp' = Op("getContext", Undefined, Undefined)
    /\ calls' = <<>>
    /\ UNCHANGED <<settings, globalContext, externalContexts, hasExternalContext>>

\* exports.delete(id, flowId), lines 213-224
deleteContext(id, flowId) ==
    /\ IF ~hasExternalContext
       THEN LET contextId == ContextId(id, flowId)
                mem == Lookup(externalContexts, "_")
            IN /\ contexts' = [c \in DOMAIN contexts \ {contextId} |-> contexts[c]]
               /\ IF mem = NoInst
                  THEN calls' = <<>> /\ ret' = Ret("TypeError", Null)
                  ELSE /\ calls' = <<Call("delete", mem, contextId, Undefined)>>
                       /\ ret' = Ret("ok", Null)
       ELSE /\ ret' = Ret("ok", Null)
            /\ calls' = <<>>
            /\ UNCHANGED contexts
    /\ lastOp' = Op("deleteContext", Undefined, Undefined)
    /\ UNCHANGED <<settings, globalContext, externalContexts, hasExternalContext, heap>>

\* clean(flowConfig), lines 226-242; live = Object.keys(flowConfig.allNodes)
clean(live) ==
    /\ LET r == ForEachBackend(externalContexts, "clean", 1, <<>>)
       IN /\ calls' = r.log
          /\ ret' = Ret(r.err, Null)
          /\ contexts' = IF r.err = "none" THEN Sweep(contexts, live) ELSE contexts
    /\ lastOp' = Op("clean", Undefined, Undefined)
    /\ UNCHANGED <<settings, globalContext, externalContexts, hasExternalContext, heap>>

\* close(), lines 244-252
close ==
    /\ LET r == ForEachBackend(externalContexts, "close", 1, <<>>)
       IN /\ calls' = r.log
          /\ ret' = Ret(r.err, Null)
    /\ lastOp' = Op("close", Undefined, Undefined)
    /\ UNCHANGED <<settings, contexts, globalContext, externalContexts,
                   hasExternalContext, heap>>

\* ------------------------------------------- the scope object's methods
\* Dispatch with a completion in the name position sent to "_"
DispatchToFallback(ext, storage, callback, needsCallback) ==
    IF (~Truthy(storage) /\ ~Truthy(callback)) \/ IsFunction(storage)
    THEN [err |-> "none", inst |-> Lookup(ext, "_"),
          callback |-> IF IsFunction(storage) THEN storage ELSE callback]
    ELSE IF ~IsFunction(callback) /\ (needsCallback \/ Truthy(callback))
    THEN [err |-> "Error", inst |-> NoInst, callback |-> callback]
    ELSE LET r == getContextStorage(ext, storage)
         IN [err |-> r.err, inst |-> r.inst, callback |-> callback]

\* Dispatch without the check of the completion (lines 152-154, 168-170,
\* 184-186)
DispatchUnchecked(ext, storage, callback, needsCallback) ==
    IF ~Truthy(storage) /\ ~Truthy(callback)
    THEN [err |-> "none", inst |-> Lookup(ext, "_"), callback |-> callback]
    ELSE LET cb == IF IsFunction(storage) THEN storage ELSE callback
             st == IF IsFunction(storage) THEN "default" ELSE storage
             r == getContextStorage(ext, st)
         IN [err |-> r.err, inst |-> r.inst, callback |-> cb]

\* lines 145-156, 161-172, 177-188: which backend a call with these storage
\* and callback arguments goes to, or the error it raises.  needsCallback
\* is TRUE for get and keys (typeof callback !== 'function' throws) and
\* FALSE for set (only a supplied callback is checked).
Dispatch(ext, storage, callback, needsCallback) ==
    IF ~Truthy(storage) /\ ~Truthy(callback)
    THEN [err |-> "none", inst |-> Lookup(ext, "_"), callback |-> callback]
    ELSE LET cb == IF IsFunction(storage) THEN storage ELSE callback
             st == IF IsFunction(storage) THEN "default" ELSE storage
         IN IF ~IsFunction(cb) /\ (needsCallback \/ Truthy(cb))
            THEN [err |-> "Error", inst |-> NoInst, callback |-> cb]
            ELSE LET r == getContextStorage(ext, st)
                 IN [err |-> r.err, inst |-> r.inst, callback |-> cb]

\* the call context.<op>(scope, ..., callback) that ends each method
Invoke(op, obj, storage, callback, needsCallback) ==
    /\ obj \in 1..Len(heap)
    /\ LET d == Dispatch(externalContexts, storage, callback, needsCallback)
       IN IF d.err # "none"
          THEN calls' = <<>> /\ ret' = Ret(d.err, Null)
          ELSE IF d.inst = NoInst
          THEN calls' = <<>> /\ ret' = Ret("TypeError", Null)
          ELSE /\ calls' = <<Call(op, d.inst, heap[obj].scope, d.callback)>>
               /\ ret' = Ret("ok", Null)
    /\ lastOp' = Op(op, storage, callback)
    /\ UNCHANGED <<settings, contexts, globalContext, externalContexts,
                   hasExternalContext, heap>>

\* obj.get(key, storage, callback), lines 143-158
obj_get(obj, storage, callback) == Invoke("get", obj, storage, callback, TRUE)

\* obj.set(key, value, storage, callback), lines 159-174
obj_set(obj, storage, callback) == Invoke("set", obj, storage, callback, FALSE)

\* obj.keys(storage, callback), lines 175-190
obj_keys(obj, storage, callback) == Invoke("keys", obj, storage, callback, TRUE)

\* ---------------------------------------------------------- specifications
DoInit(storages, seeds) == \E storage \in storages, seed \in seeds : init(storage, seed)
DoLoad == load
DoGet(args) == \E a \in args : get(a[1], a[2])
DoDelete(args) == \E a \in args : deleteContext(a[1], a[2])
DoClean(lives) == \E live \in lives : clean(live)
DoClose == close
Cached == {contexts[id] : id \in DOMAIN contexts}
DoObjGet == \E obj \in Cached, s \in StorageArgs, c \in CallbackArgs : obj_get(obj, s, c)
DoObjSet == \E obj \in Cached, s \in StorageArgs, c \in CallbackArgs : obj_set(obj, s, c)
DoObjKeys == \E obj \in Cached, s \in StorageArgs, c \in CallbackArgs : obj_keys(obj, s, c)
DoOpenSettles ==
    \E i \in 1..Len(calls), outcome \in {"fulfilled", "rejected"} : open_settles(i, outcome)

\* The scope cache and the lifecycle: every scope of a node n1 in a flow f1,
\* every set of live nodes, and one configuration of each kind.
Next ==
    \/ DoInit(FewStorages, {"new", "same"})
    \/ DoLoad
    \/ DoGet(ScopeArgs)
    \/ DoDelete(ScopeArgs)
    \/ DoClean(SUBSET NodeNames)
    \/ DoClose

Spec == Init /\ [][Next]_vars

\* The registry and the dispatch: the runtime initialised with any
\* configuration of up to MaxPlugins entries, every call shape of the scope
\* methods, on the global scope.
InitLoad ==
    \E storage \in AllStorages, seed \in {"new"} :
        LET r == InitResult([defined |-> FALSE, functionGlobalContext |-> Null,
                             contextStorage |-> <<>>], <<>>, <<>>, <<>>, storage, seed)
        IN /\ settings = r.settings
           /\ contexts = r.contexts
           /\ globalContext = r.globalContext
           /\ externalContexts = r.externalContexts
           /\ hasExternalContext = FALSE
           /\ heap = r.heap
           /\ lastOp = Op("init", Undefined, Undefined)
           /\ ret = Ret("ok", Null)
           /\ calls = r.calls

NextLoad ==
    \/ DoInit(FewStorages, {"same"})
    \/ DoLoad
    \/ DoClean({NodeNames})
    \/ DoClose
    \/ DoObjGet
    \/ DoObjSet
    \/ DoObjKeys

SpecLoad == InitLoad /\ [][NextLoad]_vars

\* The completion of load: the runtime initialised with any configuration,
\* loaded, and the open() promises settling in every order and with every
\* outcome, also across a second load and a close.
NextOpen ==
    \/ DoLoad
    \/ DoOpenSettles
    \/ DoClose

SpecOpen == InitLoad /\ [][NextOpen]_vars

\* The scope methods on every scope: the scopes of a node n1 in a flow f1
\* are created, and every call shape is issued on every cached scope.
NextScope ==
    \/ DoInit(FewStorages, {"new"})
    \/ DoLoad
    \/ DoGet(ScopeArgs)
    \/ DoObjGet
    \/ DoObjSet
    \/ DoObjKeys

SpecScope == Init /\ [][NextScope]_vars

\* ------------------------------------------------------------------ claims
IsGet(a) == get(a[1], a[2])
IsDelete(a) == deleteContext(a[1], a[2])

\* what a getContext call returns: the cached object, and on a hit it leaves
\* the cache and the registry as they were
GetReturnsCached ==
    \A a \in ScopeArgs :
        (lastOp'.op = "getContext" /\ IsGet(a)) =>
            /\ ContextId(a[1], a[2]) \in DOMAIN contexts'
            /\ ret'.ref = contexts'[ContextId(a[1], a[2])]
            /\ ContextId(a[1], a[2]) \in DOMAIN contexts =>
                   /\ contexts' = contexts
                   /\ externalContexts' = externalContexts

Kept(s) == s \in DOMAIN contexts' /\ contexts'[s] = contexts[s]
DeletedBy(s) ==
    /\ lastOp'.op = "deleteContext"
    /\ \E a \in ScopeArgs : ContextId(a[1], a[2]) = s /\ IsDelete(a)
SweptBy(s) ==
    /\ lastOp'.op = "clean"
    /\ s \notin DOMAIN contexts'
    /\ \E live \in SUBSET NodeNames : clean(live)

\* C1 as stated: getScope(s) returns the cached object, a hit changes neither
\* cache nor registry, and the object cached under s stays the same from
\* step to step unless the step is deleteScope(s) or a sweep that removes s.
C1_Original ==
    [][/\ GetReturnsCached
       /\ \A s \in DOMAIN contexts : Kept(s) \/ DeletedBy(s) \/ SweptBy(s)]_vars

\* C1 amended: ... unless the step is deleteScope(s), a sweep that removes s,
\* or an init, which caches a new "global" scope.
C1_ReferenceStability ==
    [][/\ GetReturnsCached
       /\ \A s \in DOMAIN contexts :
              \/ Kept(s) \/ DeletedBy(s) \/ SweptBy(s)
              \/ (s = <<"global">> /\ lastOp'.op = "init")]_vars

\* a getScope("n1") that found its scope cached: it returned the n1 scope,
\* which is not the newest object
C1_Witness ==
    /\ settings.defined
    /\ lastOp.op = "getContext"
    /\ ret.ref \in 1..(Len(heap) - 1)
    /\ heap[ret.ref].scope = <<"n1">>
    /\ <<"n1">> \in DOMAIN contexts /\ contexts[<<"n1">>] = ret.ref

\* C2: in every state after init, whenever the scope of (nodeId, flowId) is
\* cached, its .flow is the object getScope(flowId) returns, that is the one
\* cached under flowId.
C2_FlowLink ==
    \A a \in ScopeArgs :
        (settings.defined /\ a[2] # NoId /\ ContextId(a[1], a[2]) \in DOMAIN contexts) =>
            /\ a[2] \in DOMAIN contexts
            /\ heap[contexts[ContextId(a[1], a[2])]].flow = contexts[a[2]]

\* C3: once init has run, "global" is cached and is the object init created.
C3_GlobalKept ==
    settings.defined =>
        /\ <<"global">> \in DOMAIN contexts
        /\ contexts[<<"global">>] = globalContext

\* C4: after sweep(liveIds) the cache is the old cache restricted to "global"
\* and the identifiers whose leading component is in liveIds.
C4_SweepPost ==
    [][\A live \in SUBSET NodeNames :
           (lastOp'.op = "clean" /\ clean(live)) =>
               /\ DOMAIN contexts' =
                      {id \in DOMAIN contexts : id = <<"global">> \/ id[1] \in live}
               /\ \A id \in DOMAIN contexts' : contexts'[id] = contexts[id]]_vars

\* the configured entries, in order (none when contextStorage is absent)
Plugins == IF settings.contextStorage = <<>> THEN <<>> ELSE settings.contextStorage[1]

ConfigErrors ==
    {"error-invalid-default-module", "error-module-not-loaded",
     "error-module-not-defined", "error-loading-module"}

Opened == \E i \in 1..Len(calls) : calls[i].op = "open"
Constructed(n) == \E i \in 1..Len(calls) : calls[i].op = "construct" /\ calls[i].arg = n

\* the entry needs nothing, or is a valid alias, or its instance was built
Settled(e) ==
    \/ e.name = "_"
    \/ e.name = "default" /\ e.kind = "string" /\ Declared(Plugins, e.target)
    \/ e.kind = "ok" /\ Constructed(e.name)

\* C5: within one load every construction precedes every open(), an open()
\* happens only when every configured entry is valid and constructed, and a
\* load rejected for a configuration or module error has opened nothing.
C5_ConstructBeforeOpen ==
    lastOp.op = "load" =>
        /\ \A i, j \in 1..Len(calls) :
               (calls[i].op = "open" /\ calls[j].op = "construct") => j < i
        /\ Opened => \A k \in 1..Len(Plugins) : Settled(Plugins[k])
        /\ ret.status \in ConfigErrors => ~Opened

\* a load that constructed a backend, then met a bad entry, and opened nothing
C5_Witness ==
    /\ lastOp.op = "load"
    /\ ret.status \in ConfigErrors
    /\ \E i \in 1..Len(calls) : calls[i].op = "construct"
    /\ ~Opened

Methods == {"get", "set", "keys"}
StorageNames == StorageArgs \ {Undefined, "function"}

\* the last call made exactly one backend call, of its own kind, on this instance
Reached(inst) ==
    /\ inst # NoInst
    /\ ret.status = "ok"
    /\ Len(calls) = 1
    /\ calls[1].op = lastOp.op
    /\ calls[1].inst = inst.id

Raised(e) == ret.status = e /\ calls = <<>>

\* C6: a call naming a backend goes to the instance registered under that
\* name, else to the instance registered as "default", else raises
\* ContextError without calling any backend.
C6_Resolve ==
    (lastOp.op \in Methods /\ lastOp.storage \in StorageNames /\ lastOp.callback = "function") =>
        IF Has(externalContexts, lastOp.storage)
        THEN Reached(Lookup(externalContexts, lastOp.storage))
        ELSE IF Has(externalContexts, "default")
        THEN Reached(Lookup(externalContexts, "default"))
        ELSE Raised("ContextError")

\* the last call was a scope method given no backend name
NoName ==
    /\ lastOp.op \in Methods
    /\ \/ lastOp.storage = Undefined /\ lastOp.callback \in {Undefined, "function"}
       \/ lastOp.storage = "function"

\* C7 as stated: every call that gives no backend name reaches "_".
C7_Original == NoName => Reached(Lookup(externalContexts, "_"))

\* C7 amended: after init, a call that gives neither a backend name nor a
\* completion reaches the in-memory "_"; a call that gives a completion and no name is
\* resolved under "default": it reaches what "default" is bound to, raises
\* a TypeError when "default" is bound to no instance, and raises
\* ContextError when "default" is not registered.
C7_OmittedName ==
    (settings.defined /\ NoName) =>
        IF lastOp.storage = Undefined /\ lastOp.callback = Undefined
        THEN /\ Reached(Lookup(externalContexts, "_"))
             /\ Lookup(externalContexts, "_").module = "memory"
        ELSE IF ~Has(externalContexts, "default") THEN Raised("ContextError")
        ELSE IF Lookup(externalContexts, "default") = NoInst THEN Raised("TypeError")
        ELSE Reached(Lookup(externalContexts, "default"))

\* a call with the completion in the name position that reached a backend
\* other than "_"
C7_Witness ==
    /\ lastOp.op \in Methods
    /\ lastOp.storage = "function"
    /\ Reached(Lookup(externalContexts, "default"))
    /\ calls[1].inst # Lookup(externalContexts, "_").id

DefaultIsString ==
    \E i \in 1..Len(Plugins) : Plugins[i].name = "default" /\ Plugins[i].kind = "string"

\* C8: when "default" is configured as a string, the registry entry
\* "default" is absent or holds the instance of exactly one other
\* registered name.
C8_DefaultAlias ==
    (DefaultIsString /\ Has(externalContexts, "default")) =>
        /\ Lookup(externalContexts, "default") # NoInst
        /\ Cardinality({n \in PluginNames \ {"default"} :
               /\ Has(externalContexts, n)
               /\ Lookup(externalContexts, n) = Lookup(externalContexts, "default")}) = 1

\* C9: once init has run "_" is registered and is an in-memory instance, and
\* no step but init changes the instance registered as "_".
C9_ReservedFallback ==
    /\ [](settings.defined =>
              /\ Has(externalContexts, "_")
              /\ Lookup(externalContexts, "_").module = "memory")
    /\ [][(settings.defined /\ lastOp'.op # "init") =>
              Lookup(externalContexts', "_") = Lookup(externalContexts, "_")]_vars

\* a load of a configuration that declares "_" went through
C9_Witness ==
    /\ lastOp.op = "load"
    /\ ret.status = "opening"
    /\ Declared(Plugins, "_")
    /\ Lookup(externalContexts, "_").module = "memory"

\* C10: after a load that went through, the flag says whether a backend
\* other than "_" is registered.
C10_ExternalFlag ==
    (lastOp.op = "load" /\ ret.status = "opening") =>
        (hasExternalContext <=>
             \E i \in 1..Len(externalContexts) :
                 /\ externalContexts[i].name # "_"
                 /\ externalContexts[i].inst # NoInst)

\* a backend other than "_" is registered and holds an instance
ExternalActive ==
    \E i \in 1..Len(externalContexts) :
        /\ externalContexts[i].name # "_"
        /\ externalContexts[i].inst # NoInst

\* C11: after init, deleteScope removes the cache entry of the computed id
\* and calls delete(id) on "_" exactly when no backend other than "_" is
\* active; when one is, it changes neither cache nor registry, calls no
\* backend and returns normally.
C11_DeletePolicy ==
    [][\A a \in ScopeArgs :
           (settings.defined /\ lastOp'.op = "deleteContext" /\ IsDelete(a)) =>
               /\ externalContexts' = externalContexts
               /\ ret'.status = "ok"
               /\ IF ExternalActive
                  THEN contexts' = contexts /\ calls' = <<>>
                  ELSE /\ DOMAIN contexts' = DOMAIN contexts \ {ContextId(a[1], a[2])}
                       /\ \A id \in DOMAIN contexts' : contexts'[id] = contexts[id]
                       /\ calls' = <<Call("delete", Lookup(externalContexts, "_"),
                                          ContextId(a[1], a[2]), Undefined)>>]_vars

\* the last call was a scope method with a completion that is not callable:
\* get or keys with a backend name, set with a completion supplied
Malformed ==
    \/ /\ lastOp.op \in {"get", "keys"}
       /\ lastOp.storage \in StorageNames
       /\ lastOp.callback # "function"
    \/ /\ lastOp.op = "set"
       /\ lastOp.storage # "function"
       /\ lastOp.callback = "object"

\* C12: a malformed call raises an Error, calls no backend, and leaves the
\* registry and the cache as they were, whether or not the name is registered.
C12_MalformedCall ==
    [][Malformed' =>
           /\ ret'.status = "Error"
           /\ calls' = <<>>
           /\ externalContexts' = externalContexts
           /\ contexts' = contexts]_vars

\* set with an unregistered name, no "default" registered, and a completion
\* that is not callable: the Error of the call shape, not ContextError
C12_Witness ==
    /\ lastOp = Op("set", "nosuch", "object")
    /\ ~Has(externalContexts, "default")
    /\ ExternalActive
    /\ ret.status = "Error"
    /\ calls = <<>>

\* C13: right after any init the registry holds only "_", the cache holds
\* only "global", and the flag is false.
C13_InitResets ==
    lastOp.op = "init" =>
        /\ Len(externalContexts) = 1 /\ externalContexts[1].name = "_"
        /\ DOMAIN contexts = {<<"global">>}
        /\ hasExternalContext = FALSE

\* C14: after init, a scope other than "global" that getScope returns has as
\* .global the object getScope("global") returns in that state, the one
\* cached under "global".
C14_GlobalLink ==
    (settings.defined /\ lastOp.op = "getContext" /\ heap[ret.ref].scope # <<"global">>) =>
        /\ <<"global">> \in DOMAIN contexts
        /\ heap[ret.ref].global = contexts[<<"global">>]

Opens == {i \in 1..Len(calls) : calls[i].op = "open"}
LoadRejected == ret.status \notin {"opening", "resolved"}

\* a step in which open() promises settled: the promises differ and, unlike
\* right after a call of load, they are not all pending
OpenSettled ==
    /\ lastOp.op = "load" /\ lastOp'.op = "load"
    /\ ret'.ref # ret.ref
    /\ \E i \in DOMAIN ret'.ref : ret'.ref[i] # "pending"

\* C15: load's promise is fulfilled only when the promise of every open()
\* the load called is fulfilled, it is rejected in the very step in which an
\* open() promise is rejected, whatever the order of completions, and a
\* completion touches no other open() promise and calls no backend.
C15_LoadCompletion ==
    /\ [](lastOp.op = "load" =>
              /\ ret.status # "opening" => Len(ret.ref) = Cardinality(Opens)
              /\ ret.status = "resolved" =>
                     \A i \in DOMAIN ret.ref : ret.ref[i] = "fulfilled"
              /\ (\E i \in DOMAIN ret.ref : ret.ref[i] = "rejected") => LoadRejected)
    /\ [][OpenSettled =>
              /\ \E i \in DOMAIN ret.ref :
                     /\ ret.ref[i] = "pending" /\ ret'.ref[i] # "pending"
                     /\ \A j \in DOMAIN ret.ref \ {i} : ret'.ref[j] = ret.ref[j]
              /\ LoadRejected => ret'.status = ret.status
              /\ calls' = calls]_vars

\* three backends opened: one open() fulfilled, one rejected and load with
\* it, one still pending
C15_Witness ==
    /\ lastOp.op = "load"
    /\ ret.status = "rejected"
    /\ Len(ret.ref) = 3
    /\ \E i, j, k \in DOMAIN ret.ref :
           ret.ref[i] = "fulfilled" /\ ret.ref[j] = "rejected" /\ ret.ref[k] = "pending"

IsMethod(op, obj, s, c) == Invoke(op, obj, s, c, op # "set")

\* resolve(backendName) for the call: "_" when name and completion are both
\* omitted, the name "default" when only the name is
Resolved(s, c) ==
    IF s = Undefined /\ c = Undefined
    THEN [err |-> "none", inst |-> Lookup(externalContexts, "_")]
    ELSE getContextStorage(externalContexts, IF s \in {Undefined, "function"} THEN "default" ELSE s)

\* C16: after init, a well-formed get, set or keys on a cached scope object
\* whose backend name resolves makes exactly one backend call, of the same
\* kind, on the resolved instance, with the id the object is cached under
\* and the caller's completion; set with a name and no completion included.
C16_ScopeDispatch ==
    [][\A op \in Methods, s \in StorageArgs, c \in CallbackArgs :
           (settings.defined /\ lastOp' = Op(op, s, c) /\ ~Malformed'
                /\ Resolved(s, c).err = "none") =>
               \A id \in DOMAIN contexts :
                   IsMethod(op, contexts[id], s, c) =>
                       /\ ret'.status = "ok"
                       /\ calls' = <<[op |-> op,
                                      inst |-> Resolved(s, c).inst.id,
                                      scope |-> id,
                                      arg |-> IF s = "function" THEN s ELSE c]>>]_vars

\* C17: after a load rejected for a configuration or module error the
\* registry holds only "_".
C17_FailedLoad ==
    (lastOp.op = "load" /\ ret.status \in ConfigErrors) =>
        /\ Len(externalContexts) = 1
        /\ externalContexts[1].name = "_"

\* the instances the registry holds
Instances ==
    {externalContexts[i].inst.id : i \in {j \in 1..Len(externalContexts) :
                                              externalContexts[j].inst # NoInst}}

CallsOn(op, id) == {i \in 1..Len(calls) : calls[i].op = op /\ calls[i].inst = id}

\* C18: after init, one close() makes exactly one close call, and one sweep
\* exactly one clean call, on each instance the registry holds.
C18_OncePerInstance ==
    (settings.defined /\ lastOp.op \in {"close", "clean"}) =>
        /\ Len(calls) = Cardinality(Instances)
        /\ \A id \in Instances : Cardinality(CallsOn(lastOp.op, id)) = 1

\* a load that went through: it reached Promise.all
LoadWentThrough ==
    /\ lastOp'.op = "load"
    /\ load
    /\ ret'.status = "opening"

\* C19: a load that goes through calls open() exactly once on each instance
\* the registry then holds, "_" included, and does not call open() on the
\* instance that "default" was already bound to as an alias.
C19_OpenOnce ==
    [][LoadWentThrough =>
           /\ \A i \in 1..Len(externalContexts') :
                  externalContexts'[i].inst # NoInst =>
                      Cardinality({k \in 1..Len(calls') :
                          /\ calls'[k].op = "open"
                          /\ calls'[k].inst = externalContexts'[i].inst.id}) = 1
           /\ (DefaultIsString /\ Lookup(externalContexts, "default") # NoInst) =>
                  \A k \in 1..Len(calls') :
                      calls'[k].op = "open" =>
                          calls'[k].inst # Lookup(externalContexts, "default").id]_vars

====
